---- MODULE Spec2Model ----
(***************************************************************************)
(* Relay lifecycle controller of the multi-hop drone forwarding            *)
(* simulation (drone_dynamic_deploy_ascii.cc, src/unnamed/part_004).       *)
(*                                                                         *)
(* Numbers.  The program computes in double.  Here a length is an integer  *)
(* count of 1/Scale metres, a time is an integer count of milliseconds, a  *)
(* speed is an integer count of 1/Scale metres per second, and an average  *)
(* RTT is an exact fraction <<num, den>> in milliseconds.  Halving rounds  *)
(* toward minus infinity.  Three-dimensional distances are never rounded:  *)
(* they are kept as squares and compared exactly.                          *)
(***************************************************************************)
EXTENDS Integers, Sequences, FiniteSets, TLC

\* ---------------------------------------------------------------- bounds
MaxDrones == 5          \* largest --numDrones explored
MaxPackets == 1         \* packets the echo client sends in a run
MaxTime == 4            \* seconds of simulated time explored
MaxSpread == 3          \* quarter metres over which packed relays are spread
MaxRange == 400     \* greatest hop length of the signal estimate on its own, in units of 1/Scale m

\* ------------------------------------------------------ number helpers
Scale == 8
StepMs == 1000

M(n) == n * Scale

Abs(n) == IF n < 0 THEN -n ELSE n

Min2(a, b) == IF a < b THEN a ELSE b

Half(n) == n \div 2

RECURSIVE Gcd(_, _)
Gcd(a, b) == IF b = 0 THEN a ELSE Gcd(b, a % b)

\* fraction in lowest terms with a positive denominator
Frac(n, d) ==
    LET g == Gcd(Abs(n), d)
    IN  IF n = 0 THEN <<0, 1>> ELSE <<n \div g, d \div g>>

\* avg + (sample - avg) / count, exactly
RunningAvg(avg, sample, count) ==
    LET diffNum == sample * avg[2] - avg[1]
        diffDen == avg[2] * count
    IN  Frac(avg[1] * diffDen + diffNum * avg[2], avg[2] * diffDen)

\* sqrt(l2) - sqrt(r2) > thr, for squares l2, r2 and thr >= 0, exactly:
\* with x = l2 - r2 - thr^2 and k = 2 thr it is x > k sqrt(r2), which is
\* decided from x = k q + r by comparing q^2 and (q + 1)^2 with r2 and, when
\* r2 lies between them, k^2 (r2 - q^2) with 2 k q r + r^2.  No product
\* leaves 32 bits while distances stay below 40000 units.
DiffExceeds(l2, r2, thr) ==
    LET x == l2 - r2 - thr * thr
        k == 2 * thr
        q == x \div k
        r == x % k
    IN  /\ x > 0
        /\ \/ q > 40000
           \/ q * q > r2
           \/ /\ (q + 1) * (q + 1) > r2
              /\ k * k * (r2 - q * q) < 2 * k * q * r + r * r

\* ------------------------------------------------------------- state
VARIABLES
    g_numDrones,          \* --numDrones
    g_droneInitMode,      \* --droneInitMode
    g_totalDistance,      \* --totalDistance
    g_userSpeed,          \* --userSpeed
    now,                  \* Simulator::Now(), ms
    pos,                  \* x of every node of allNodes: 0 user, 1..N drones, N+1 ap
    vel,                  \* x velocity of every node
    droneDeployed,        \* droneDeployed[i-1] of drone node i
    g_txPackets_total,
    g_rxPackets_total,
    g_avgRtt_total,
    g_rttSamples_total,
    g_txPackets_window,
    g_rxPackets_window,
    g_avgRtt_window,
    g_rttSamples_window,
    g_txPackets,
    g_rxPackets,
    g_sentTimes,          \* packet uid -> send time
    balanceEv,            \* the pending AutoBalanceDrones event [ts, uid]
    monitorEv,            \* the pending Monitor event [ts, uid]
    nextUid,              \* uid the scheduler gives the next event
    minHopRssi,           \* weakest hop RSSI of the latest deployment evaluation
    deployLog             \* the latest deployment: node, time, move, cumulative counters then

cfgVars == <<g_numDrones, g_droneInitMode, g_totalDistance, g_userSpeed>>
totalVars == <<g_txPackets_total, g_rxPackets_total, g_avgRtt_total, g_rttSamples_total>>
windowVars == <<g_txPackets_window, g_rxPackets_window, g_avgRtt_window, g_rttSamples_window>>
legacyVars == <<g_txPackets, g_rxPackets>>
nodeVars == <<pos, vel, droneDeployed>>
schedVars == <<balanceEv, monitorEv, nextUid>>
vars == <<cfgVars, now, nodeVars, totalVars, windowVars, legacyVars, g_sentTimes,
          schedVars, minHopRssi, deployLog>>

\* ------------------------------------------------- program constants
base_station_x == M(0)
g_droneHeight == M(10)
g_moveSpeed == M(3)
g_rssiMoveThresholdDb == M(3)
g_balanceInterval == 1000
g_monitorInterval == 2000
USER_DEFAULT_SPEED == (5 * Scale) \div 2
g_lossDeployThresholdPct == 20
g_rttDeployThresholdMs == 100
g_rssiDeployThresholdDb == -65
\* mutant of MAX_HOP_DISTANCE: twice the distance
MAX_HOP_DISTANCE_Doubled == M(80)
MAX_HOP_DISTANCE == M(40)
MIN_SEPARATION == Scale \div 2
ClientStart == 2000
StopTime == 60000

Modes == {"even", "cluster", "deploy"}
Speeds == {M(6), M(20)}
Distances == {M(0), M(105)}

Nodes == 0..(g_numDrones + 1)
Drones == 1..g_numDrones
ApIndex == g_numDrones + 1
Uids == 1..MaxPackets

\* height of a node: drones fly at g_droneHeight, user and ap are on the ground
Height(i) == IF i \in Drones THEN g_droneHeight ELSE 0

\* ---------------------------------------------------- mobility models
\* MobilityModel::GetDistanceFrom, squared
Dist2(p, i, j) ==
    (p[i] - p[j]) * (p[i] - p[j]) + (Height(i) - Height(j)) * (Height(i) - Height(j))

\* ConstantVelocityHelper::Update over dt milliseconds
Drift(x, v, dt) == x + (v * dt) \div 1000

\* mutant of SetVelocity: every node is given the velocity
SetVelocity_All(v, i, vx) == [j \in DOMAIN v |-> vx]

\* ConstantVelocityMobilityModel::SetVelocity on node i
SetVelocity(v, i, vx) == [v EXCEPT ![i] = vx]

\* mutant of SetPosition: the velocity is left as it was
SetPosition_KeepsVelocity(p, v, i, x) == <<[p EXCEPT ![i] = x], v>>

\* ConstantVelocityMobilityModel::SetPosition on node i: the helper stores
\* the position and clears the velocity.  Result is <<positions, velocities>>.
SetPosition(p, v, i, x) == <<[p EXCEPT ![i] = x], [v EXCEPT ![i] = 0]>>

\* --------------------------------------------------------------- main
\* mutant of InitialDroneX: even spacing counts the drones from 0
InitialDroneX_FromZero(mode, n, dist, i) ==
    CASE mode = "even" -> ((i - 1) * dist) \div (n + 1)
      [] mode = "cluster" -> M(5) + M(i - 1)
      [] OTHER -> base_station_x - M(i - 1)

InitialDroneX(mode, n, dist, i) ==
    CASE mode = "even" -> (i * dist) \div (n + 1)
      [] mode = "cluster" -> M(5) + M(i - 1)
      [] OTHER -> base_station_x - M(i - 1)

\* the counters, the map of send times and the two events main schedules
InitMetrics ==
    /\ g_txPackets_total = 0
    /\ g_rxPackets_total = 0
    /\ g_avgRtt_total = <<0, 1>>
    /\ g_rttSamples_total = 0
    /\ g_txPackets_window = 0
    /\ g_rxPackets_window = 0
    /\ g_avgRtt_window = <<0, 1>>
    /\ g_rttSamples_window = 0
    /\ g_txPackets = 0
    /\ g_rxPackets = 0
    /\ g_sentTimes = <<>>
    /\ balanceEv = [ts |-> g_balanceInterval, uid |-> 1]
    /\ monitorEv = [ts |-> 2000, uid |-> 2]
    /\ nextUid = 3
    /\ minHopRssi = 1000
    /\ deployLog = [node |-> 0, at |-> 0, oldX |-> 0, targetX |-> 0,
                    tx |-> 0, rx |-> 0, samples |-> 0]

Init ==
    /\ g_numDrones \in 0..MaxDrones
    /\ g_droneInitMode \in Modes
    /\ g_totalDistance \in Distances
    /\ g_droneInitMode # "even" => g_totalDistance = M(0)
    /\ g_userSpeed \in Speeds
    /\ now = 0
    /\ pos = [i \in Nodes |->
                IF i = 0 THEN M(0)
                ELSE IF i = ApIndex THEN base_station_x
                ELSE InitialDroneX(g_droneInitMode, g_numDrones, g_totalDistance, i)]
    /\ vel = [i \in Nodes |-> IF i = 0 THEN g_userSpeed ELSE 0]
    /\ droneDeployed = [i \in Drones |-> g_droneInitMode \in {"even", "cluster"}]
    /\ InitMetrics

\* ------------------------------------------------------------- traces
\* the echo client sends packet number g_txPackets_total + 1
TxTrace ==
    /\ now >= ClientStart
    /\ g_txPackets_total < MaxPackets
    /\ g_txPackets' = g_txPackets + 1
    /\ g_txPackets_total' = g_txPackets_total + 1
    /\ g_txPackets_window' = g_txPackets_window + 1
    /\ g_sentTimes' = [u \in (DOMAIN g_sentTimes) \cup {g_txPackets_total + 1} |->
                          IF u = g_txPackets_total + 1 THEN now ELSE g_sentTimes[u]]
    /\ UNCHANGED <<cfgVars, now, nodeVars, g_rxPackets_total, g_avgRtt_total,
                   g_rttSamples_total, g_rxPackets_window, g_avgRtt_window,
                   g_rttSamples_window, g_rxPackets, schedVars, minHopRssi, deployLog>>

\* mutant of RxTrace: only the cumulative series counts the packet
RxTrace_TotalOnly ==
    /\ g_rxPackets_total < g_txPackets_total
    /\ g_rxPackets' = g_rxPackets + 1
    /\ g_rxPackets_total' = g_rxPackets_total + 1
    /\ UNCHANGED <<cfgVars, now, nodeVars, g_txPackets_total, g_avgRtt_total,
                   g_rttSamples_total, windowVars, g_txPackets, g_sentTimes, schedVars,
                   minHopRssi, deployLog>>

\* the echo server receives a packet that was sent
RxTrace ==
    /\ g_rxPackets_total < g_txPackets_total
    /\ g_rxPackets' = g_rxPackets + 1
    /\ g_rxPackets_total' = g_rxPackets_total + 1
    /\ g_rxPackets_window' = g_rxPackets_window + 1
    /\ UNCHANGED <<cfgVars, now, nodeVars, g_txPackets_total, g_avgRtt_total,
                   g_rttSamples_total, g_txPackets_window, g_avgRtt_window,
                   g_rttSamples_window, g_txPackets, g_sentTimes, schedVars,
                   minHopRssi, deployLog>>

\* mutant of ClientRxTraceResult: a uid without a send time is taken as sent
\* at time 0, as a lookup that inserts a default would do
ClientRxTraceResult_CountsUnknown(uid) ==
    LET rttMs == IF uid \in DOMAIN g_sentTimes THEN now - g_sentTimes[uid] ELSE now
    IN  [samplesTotal |-> g_rttSamples_total + 1,
         avgTotal |-> RunningAvg(g_avgRtt_total, rttMs, g_rttSamples_total + 1),
         samplesWindow |-> g_rttSamples_window + 1,
         avgWindow |-> RunningAvg(g_avgRtt_window, rttMs, g_rttSamples_window + 1),
         sentTimes |-> [u \in (DOMAIN g_sentTimes) \ {uid} |-> g_sentTimes[u]]]

\* mutant of ClientRxTraceResult: only the window series takes the sample
ClientRxTraceResult_WindowOnly(uid) ==
    IF uid \in DOMAIN g_sentTimes
    THEN LET rttMs == now - g_sentTimes[uid]
         IN  [samplesTotal |-> g_rttSamples_total,
              avgTotal |-> g_avgRtt_total,
              samplesWindow |-> g_rttSamples_window + 1,
              avgWindow |-> RunningAvg(g_avgRtt_window, rttMs, g_rttSamples_window + 1),
              sentTimes |-> [u \in (DOMAIN g_sentTimes) \ {uid} |-> g_sentTimes[u]]]
    ELSE [samplesTotal |-> g_rttSamples_total,
          avgTotal |-> g_avgRtt_total,
          samplesWindow |-> g_rttSamples_window,
          avgWindow |-> g_avgRtt_window,
          sentTimes |-> g_sentTimes]

\* what ClientRxTrace leaves in the two RTT series and the map of send times
ClientRxTraceResult(uid) ==
    IF uid \in DOMAIN g_sentTimes
    THEN LET rttMs == now - g_sentTimes[uid]
         IN  [samplesTotal |-> g_rttSamples_total + 1,
              avgTotal |-> RunningAvg(g_avgRtt_total, rttMs, g_rttSamples_total + 1),
              samplesWindow |-> g_rttSamples_window + 1,
              avgWindow |-> RunningAvg(g_avgRtt_window, rttMs, g_rttSamples_window + 1),
              sentTimes |-> [u \in (DOMAIN g_sentTimes) \ {uid} |-> g_sentTimes[u]]]
    ELSE [samplesTotal |-> g_rttSamples_total,
          avgTotal |-> g_avgRtt_total,
          samplesWindow |-> g_rttSamples_window,
          avgWindow |-> g_avgRtt_window,
          sentTimes |-> g_sentTimes]

\* the echo client receives the reply to packet uid; the server replies only
\* to what it received
ClientRxTrace(uid) ==
    /\ now >= ClientStart
    /\ g_rttSamples_total < g_rxPackets_total
    /\ LET result == ClientRxTraceResult(uid)
       IN  /\ g_rttSamples_total' = result.samplesTotal
           /\ g_avgRtt_total' = result.avgTotal
           /\ g_rttSamples_window' = result.samplesWindow
           /\ g_avgRtt_window' = result.avgWindow
           /\ g_sentTimes' = result.sentTimes
    /\ UNCHANGED <<cfgVars, now, nodeVars, g_txPackets_total, g_rxPackets_total,
                   g_txPackets_window, g_rxPackets_window, legacyVars, schedVars,
                   minHopRssi, deployLog>>

\* ------------------------------------------------------ RSSI estimator
\* The path loss 10 * pathLossExp * log10(distance / d0) = 25 log10(d) dB is
\* kept in whole dB, rounded up, so that the RSSI is the floor of the value
\* the program computes and compares with whole thresholds as it does.
\* PathLossTable[k + 1] is the least squared distance, in squared units of
\* 1/8 m, whose path loss exceeds k dB: the least integer above
\* 64 * 10^(2k/25), for k = 0..62.
PathLossTable ==
    <<65, 77, 93, 112, 134, 161, 194, 233, 280, 336, 404, 486, 584, 702,
      844, 1015, 1220, 1467, 1763, 2120, 2548, 3064, 3683, 4428, 5324,
      6401, 7695, 9251, 11122, 13372, 16077, 19328, 23237, 27938, 33588,
      40382, 48549, 58369, 70175, 84369, 101434, 121950, 146616, 176271,
      211924, 254789, 306324, 368282, 442772, 532329, 640001, 769450,
      925082, 1112193, 1337150, 1607608, 1932770, 2323700, 2793702,
      3358768, 4038128, 4854897, 5836870>>

\* the number of entries of PathLossTable[lo+1..hi] that are <= d2, given
\* that the first lo entries are and the entries after hi are not
RECURSIVE PathLossSearch(_, _, _)
PathLossSearch(d2, lo, hi) ==
    IF lo = hi THEN lo
    ELSE LET mid == (lo + hi + 1) \div 2
         IN  IF PathLossTable[mid] <= d2 THEN PathLossSearch(d2, mid, hi)
                                        ELSE PathLossSearch(d2, lo, mid - 1)

\* whole dB of path loss at squared distance d2, rounded up
PathLoss(d2) == PathLossSearch(d2, 0, Len(PathLossTable))

\* mutant of rssiCalcFromDistance: the path loss is added to the transmit power
rssiCalcFromDistance_Gain(d2, noise) ==
    LET d0 == M(1)
        capped == IF d2 < d0 * d0 THEN d0 * d0 ELSE d2
    IN  20 + PathLoss(capped) + noise

\* rssiCalcFromDistance on a squared distance, with the noise the generator returned
rssiCalcFromDistance(d2, noise) ==
    LET d0 == M(1)
        capped == IF d2 < d0 * d0 THEN d0 * d0 ELSE d2
    IN  20 - PathLoss(capped) + noise

\* the values the model lets the normal generator return: the mean and one
\* standard deviation either side of it
noiseStd == 1
Noise == {-noiseStd, 0, noiseStd}

\* ---------------------------------------------- DeployNextDroneIfNeeded
\* mutant of ActiveNodes: user, deployed drones and ap in ascending x
ActiveNodes_ByPosition(dep) ==
    SortSeq(<<0>> \o SelectSeq([i \in Drones |-> i], LAMBDA i : dep[i]) \o <<ApIndex>>,
            LAMBDA a, b : pos[a] < pos[b])

\* activeNodes: user, the deployed drones in index order, ap
ActiveNodes(dep) ==
    <<0>> \o SelectSeq([i \in Drones |-> i], LAMBDA i : dep[i]) \o <<ApIndex>>

\* mutant of LossRate: with nothing sent everything counts as lost
LossRate_IdleIsLoss(tx, rx) == IF tx > 0 THEN Frac(100 * (tx - rx), tx) ELSE <<100, 1>>

\* 100 * (1 - rx / tx), or 0 when nothing was sent
LossRate(tx, rx) == IF tx > 0 THEN Frac(100 * (tx - rx), tx) ELSE <<0, 1>>

\* fraction f > integer n
FracExceeds(f, n) == f[1] > n * f[2]

\* the hop loop from hop i on: accs holds every value minHopRssi can have
\* before hop i, over the values the generator can have returned so far
RECURSIVE MinHopRssi(_, _, _, _)
MinHopRssi(p, chain, i, accs) ==
    IF i + 1 > Len(chain) THEN accs
    ELSE LET hopDist2 == Dist2(p, chain[i], chain[i + 1])
             hopRssi == {rssiCalcFromDistance(hopDist2, n) : n \in Noise}
         IN  MinHopRssi(p, chain, i + 1, {Min2(acc, r) : acc \in accs, r \in hopRssi})

\* the weakest-hop values the evaluation can compute
PossibleWeakest(p, chain) == MinHopRssi(p, chain, 1, {1000})

\* mutant of HopTooLong: a hop of exactly MAX_HOP_DISTANCE counts as too long
HopTooLong_Inclusive(p, chain) ==
    \E i \in 1..(Len(chain) - 1) :
        Dist2(p, chain[i], chain[i + 1]) >= MAX_HOP_DISTANCE * MAX_HOP_DISTANCE

HopTooLong(p, chain) ==
    \E i \in 1..(Len(chain) - 1) :
        Dist2(p, chain[i], chain[i + 1]) > MAX_HOP_DISTANCE * MAX_HOP_DISTANCE

\* mutant of Poor: the hop lengths are not looked at
Poor_NoHopCheck(lossRate, rtt, weakest, p, chain) ==
    \/ FracExceeds(lossRate, g_lossDeployThresholdPct)
    \/ FracExceeds(rtt, g_rttDeployThresholdMs)
    \/ weakest < g_rssiDeployThresholdDb

Poor(lossRate, rtt, weakest, p, chain) ==
    \/ FracExceeds(lossRate, g_lossDeployThresholdPct)
    \/ FracExceeds(rtt, g_rttDeployThresholdMs)
    \/ weakest < g_rssiDeployThresholdDb
    \/ HopTooLong(p, chain)

\* mutant of NextIndex: the last staged drone, or -1
NextIndex_Last(dep) ==
    IF \E i \in Drones : ~dep[i]
    THEN CHOOSE i \in Drones : ~dep[i] /\ \A j \in Drones : j > i => dep[j]
    ELSE -1

\* mutant of NextIndex: with no staged drone left the first drone is taken again
NextIndex_Again(dep) ==
    IF \E i \in Drones : ~dep[i]
    THEN CHOOSE i \in Drones : ~dep[i] /\ \A j \in Drones : j < i => dep[j]
    ELSE IF Drones # {} THEN 1 ELSE -1

\* first staged drone, or -1
NextIndex(dep) ==
    IF \E i \in Drones : ~dep[i]
    THEN CHOOSE i \in Drones : ~dep[i] /\ \A j \in Drones : j < i => dep[j]
    ELSE -1

\* x of user, deployed drones and ap, sorted ascending
ActiveXs(p, dep) ==
    LET chain == ActiveNodes(dep)
    IN  SortSeq([k \in 1..Len(chain) |-> p[chain[k]]], LAMBDA a, b : a < b)

\* mutant of BestIdx: the last largest gap
RECURSIVE BestIdx_LastLargest(_, _, _, _)
BestIdx_LastLargest(xs, j, bestGap, bestIdx) ==
    IF j + 1 > Len(xs) THEN bestIdx
    ELSE LET gap == xs[j + 1] - xs[j]
         IN  IF gap >= bestGap THEN BestIdx_LastLargest(xs, j + 1, gap, j)
                               ELSE BestIdx_LastLargest(xs, j + 1, bestGap, bestIdx)

\* index of the first largest gap of xs, scanning from j
RECURSIVE BestIdx(_, _, _, _)
BestIdx(xs, j, bestGap, bestIdx) ==
    IF j + 1 > Len(xs) THEN bestIdx
    ELSE LET gap == xs[j + 1] - xs[j]
         IN  IF gap > bestGap THEN BestIdx(xs, j + 1, gap, j)
                              ELSE BestIdx(xs, j + 1, bestGap, bestIdx)

TargetX(p, dep) ==
    LET xs == ActiveXs(p, dep)
        bestIdx == BestIdx(xs, 1, -M(1), 1)
    IN  Half(xs[bestIdx] + xs[bestIdx + 1])

\* mutant of MarkDeployed: only the new drone stays marked
MarkDeployed_Exclusive(dep, nextIndex) == [i \in DOMAIN dep |-> i = nextIndex]

\* mutant of MarkDeployed: every drone from the new one on is marked
MarkDeployed_Rest(dep, nextIndex) == [i \in DOMAIN dep |-> dep[i] \/ i >= nextIndex]

\* droneDeployed[nextIndex-1] = true
MarkDeployed(dep, nextIndex) == [dep EXCEPT ![nextIndex] = TRUE]

\* mutant of ResetWindowMetrics: the window average is left as it was
ResetWindowMetrics_KeepAverage ==
    /\ g_txPackets_window' = 0
    /\ g_rxPackets_window' = 0
    /\ g_avgRtt_window' = g_avgRtt_window
    /\ g_rttSamples_window' = 0
    /\ g_txPackets' = 0
    /\ g_rxPackets' = 0

\* the reset of the window metrics and of the counters of the old code
ResetWindowMetrics ==
    /\ g_txPackets_window' = 0
    /\ g_rxPackets_window' = 0
    /\ g_avgRtt_window' = <<0, 1>>
    /\ g_rttSamples_window' = 0
    /\ g_txPackets' = 0
    /\ g_rxPackets' = 0

\* mutant of DeployNextDroneIfNeeded: an evaluation that finds the link good
\* starts a new window
DeployNextDroneIfNeeded_ResetWhenGood(weakest) ==
    LET lossRate == LossRate(g_txPackets_window, g_rxPackets_window)
        rtt == g_avgRtt_window
        chain == ActiveNodes(droneDeployed)
        poor == Poor(lossRate, rtt, weakest, pos, chain)
        nextIndex == NextIndex(droneDeployed)
    IN  /\ minHopRssi' = weakest
        /\ IF nextIndex = -1
           THEN UNCHANGED <<nodeVars, windowVars, legacyVars, deployLog>>
           ELSE IF ~poor
           THEN /\ ResetWindowMetrics
                /\ UNCHANGED <<nodeVars, deployLog>>
           ELSE LET targetX == TargetX(pos, droneDeployed)
                    placed == SetPosition(pos, vel, nextIndex, targetX)
                IN  /\ pos' = placed[1]
                    /\ vel' = SetVelocity(placed[2], nextIndex, 0)
                    /\ droneDeployed' = MarkDeployed(droneDeployed, nextIndex)
                    /\ ResetWindowMetrics
                    /\ deployLog' = [node |-> nextIndex, at |-> now, oldX |-> pos[nextIndex],
                                     targetX |-> targetX, tx |-> g_txPackets_total,
                                     rx |-> g_rxPackets_total,
                                     samples |-> g_rttSamples_total]

\* mutant of DeployNextDroneIfNeeded: with no staged drone left the window
\* is reset all the same
DeployNextDroneIfNeeded_ResetWithoutSlot(weakest) ==
    LET lossRate == LossRate(g_txPackets_window, g_rxPackets_window)
        rtt == g_avgRtt_window
        chain == ActiveNodes(droneDeployed)
        poor == Poor(lossRate, rtt, weakest, pos, chain)
        nextIndex == NextIndex(droneDeployed)
    IN  /\ minHopRssi' = weakest
        /\ IF ~poor
           THEN UNCHANGED <<nodeVars, windowVars, legacyVars, deployLog>>
           ELSE IF nextIndex = -1
           THEN /\ ResetWindowMetrics
                /\ UNCHANGED <<nodeVars, deployLog>>
           ELSE LET targetX == TargetX(pos, droneDeployed)
                    placed == SetPosition(pos, vel, nextIndex, targetX)
                IN  /\ pos' = placed[1]
                    /\ vel' = SetVelocity(placed[2], nextIndex, 0)
                    /\ droneDeployed' = MarkDeployed(droneDeployed, nextIndex)
                    /\ ResetWindowMetrics
                    /\ deployLog' = [node |-> nextIndex, at |-> now, oldX |-> pos[nextIndex],
                                     targetX |-> targetX, tx |-> g_txPackets_total,
                                     rx |-> g_rxPackets_total,
                                     samples |-> g_rttSamples_total]

\* mutant of DeployNextDroneIfNeeded: loss rate and RTT are taken from the
\* cumulative series
DeployNextDroneIfNeeded_FromTotals(weakest) ==
    LET lossRate == LossRate(g_txPackets_total, g_rxPackets_total)
        rtt == g_avgRtt_total
        chain == ActiveNodes(droneDeployed)
        poor == Poor(lossRate, rtt, weakest, pos, chain)
        nextIndex == NextIndex(droneDeployed)
    IN  /\ minHopRssi' = weakest
        /\ IF ~poor \/ nextIndex = -1
           THEN UNCHANGED <<nodeVars, windowVars, legacyVars, deployLog>>
           ELSE LET targetX == TargetX(pos, droneDeployed)
                    placed == SetPosition(pos, vel, nextIndex, targetX)
                IN  /\ pos' = placed[1]
                    /\ vel' = SetVelocity(placed[2], nextIndex, 0)
                    /\ droneDeployed' = MarkDeployed(droneDeployed, nextIndex)
                    /\ ResetWindowMetrics
                    /\ deployLog' = [node |-> nextIndex, at |-> now, oldX |-> pos[nextIndex],
                                     targetX |-> targetX, tx |-> g_txPackets_total,
                                     rx |-> g_rxPackets_total,
                                     samples |-> g_rttSamples_total]

\* weakest is the minimum hop RSSI the evaluation computed
DeployNextDroneIfNeeded(weakest) ==
    LET lossRate == LossRate(g_txPackets_window, g_rxPackets_window)
        rtt == g_avgRtt_window
        chain == ActiveNodes(droneDeployed)
        poor == Poor(lossRate, rtt, weakest, pos, chain)
        nextIndex == NextIndex(droneDeployed)
    IN  /\ minHopRssi' = weakest
        /\ IF ~poor \/ nextIndex = -1
           THEN UNCHANGED <<nodeVars, windowVars, legacyVars, deployLog>>
           ELSE LET targetX == TargetX(pos, droneDeployed)
                    placed == SetPosition(pos, vel, nextIndex, targetX)
                IN  /\ pos' = placed[1]
                    /\ vel' = SetVelocity(placed[2], nextIndex, 0)
                    /\ droneDeployed' = MarkDeployed(droneDeployed, nextIndex)
                    /\ ResetWindowMetrics
                    /\ deployLog' = [node |-> nextIndex, at |-> now, oldX |-> pos[nextIndex],
                                     targetX |-> targetX, tx |-> g_txPackets_total,
                                     rx |-> g_rxPackets_total,
                                     samples |-> g_rttSamples_total]

\* mutant of Due: of the events of one timestamp the last scheduled runs first
Due_LastScheduled(ev, other) ==
    ev.ts = now /\ now < StopTime /\ (other.ts > now \/ ev.uid > other.uid)

\* an event is run when it is the earliest pending one; events of one
\* timestamp run in the order they were scheduled, and the stop event was
\* scheduled before any event pending at the stop time
Due(ev, other) ==
    ev.ts = now /\ now < StopTime /\ (other.ts > now \/ ev.uid < other.uid)

\* the two loss rates Monitor reports
lossTotal == LossRate(g_txPackets_total, g_rxPackets_total)
lossWindow == LossRate(g_txPackets_window, g_rxPackets_window)

\* mutant of Monitor: a deployment empties the cumulative series as well
Monitor_ResetsTotals ==
    /\ Due(monitorEv, balanceEv)
    /\ \E weakest \in PossibleWeakest(pos, ActiveNodes(droneDeployed)) :
           DeployNextDroneIfNeeded(weakest)
    /\ IF droneDeployed' # droneDeployed
       THEN /\ g_txPackets_total' = 0
            /\ g_rxPackets_total' = 0
            /\ g_avgRtt_total' = <<0, 1>>
            /\ g_rttSamples_total' = 0
       ELSE UNCHANGED totalVars
    /\ monitorEv' = [ts |-> now + g_monitorInterval, uid |-> nextUid]
    /\ nextUid' = nextUid + 1
    /\ UNCHANGED <<cfgVars, now, g_sentTimes, balanceEv>>

\* mutant of Monitor: the next evaluation is scheduled a balance interval ahead
Monitor_EveryBalanceInterval ==
    /\ Due(monitorEv, balanceEv)
    /\ \E weakest \in PossibleWeakest(pos, ActiveNodes(droneDeployed)) :
           DeployNextDroneIfNeeded(weakest)
    /\ monitorEv' = [ts |-> now + g_balanceInterval, uid |-> nextUid]
    /\ nextUid' = nextUid + 1
    /\ UNCHANGED <<cfgVars, now, totalVars, g_sentTimes, balanceEv>>

Monitor ==
    /\ Due(monitorEv, balanceEv)
    /\ \E weakest \in PossibleWeakest(pos, ActiveNodes(droneDeployed)) :
           DeployNextDroneIfNeeded(weakest)
    /\ monitorEv' = [ts |-> now + g_monitorInterval, uid |-> nextUid]
    /\ nextUid' = nextUid + 1
    /\ UNCHANGED <<cfgVars, now, totalVars, g_sentTimes, balanceEv>>

\* ---------------------------------------------------- AutoBalanceDrones
\* the nodes whose distances steer drone di: the next lower and the next
\* higher node index
leftMob(di) == di - 1
rightMob(di) == di + 1

\* mutant of SteerVelocity: the two directions are exchanged
SteerVelocity_Reversed(p, di) ==
    LET leftDist2 == Dist2(p, di, leftMob(di))
        rightDist2 == Dist2(p, di, rightMob(di))
    IN  IF DiffExceeds(leftDist2, rightDist2, g_rssiMoveThresholdDb) THEN -g_moveSpeed
        ELSE IF DiffExceeds(rightDist2, leftDist2, g_rssiMoveThresholdDb) THEN g_moveSpeed
        ELSE 0

\* mutant of SteerVelocity: a difference of exactly the threshold moves the
\* drone as well
SteerVelocity_Inclusive(p, di) ==
    LET leftDist2 == Dist2(p, di, leftMob(di))
        rightDist2 == Dist2(p, di, rightMob(di))
        thr == g_rssiMoveThresholdDb
        atThr(l2, r2) ==
            LET x == l2 - r2 - thr * thr
            IN  /\ x >= 0 /\ x % (2 * thr) = 0 /\ x \div (2 * thr) <= 40000
                /\ (x \div (2 * thr)) * (x \div (2 * thr)) = r2
    IN  IF DiffExceeds(leftDist2, rightDist2, thr) \/ atThr(leftDist2, rightDist2)
        THEN g_moveSpeed
        ELSE IF DiffExceeds(rightDist2, leftDist2, thr) \/ atThr(rightDist2, leftDist2)
        THEN -g_moveSpeed
        ELSE 0

\* velocity the steering rule gives drone di, from the positions p
SteerVelocity(p, di) ==
    LET leftDist2 == Dist2(p, di, leftMob(di))
        rightDist2 == Dist2(p, di, rightMob(di))
    IN  IF DiffExceeds(leftDist2, rightDist2, g_rssiMoveThresholdDb) THEN g_moveSpeed
        ELSE IF DiffExceeds(rightDist2, leftDist2, g_rssiMoveThresholdDb) THEN -g_moveSpeed
        ELSE 0

\* mutant of MoveDrones: staged drones are steered as well
RECURSIVE MoveDrones_StagedToo(_, _, _, _)
MoveDrones_StagedToo(di, p, v, dep) ==
    IF di > g_numDrones THEN <<p, v>>
    ELSE LET velx == SteerVelocity(p, di)
             v1 == SetVelocity(v, di, velx)
             futureX == p[di] + (velx * g_balanceInterval) \div 1000
             moved == SetPosition(p, v1, di, futureX)
         IN  MoveDrones_StagedToo(di + 1, moved[1], moved[2], dep)

\* mutant of MoveDrones: every drone is steered from the positions the tick
\* started with
RECURSIVE MoveDrones_FromStart(_, _, _, _)
MoveDrones_FromStart(di, p, v, dep) ==
    IF di > g_numDrones THEN <<p, v>>
    ELSE IF ~dep[di] THEN MoveDrones_FromStart(di + 1, p, v, dep)
    ELSE LET velx == SteerVelocity(pos, di)
             v1 == SetVelocity(v, di, velx)
             futureX == p[di] + (velx * g_balanceInterval) \div 1000
             moved == SetPosition(p, v1, di, futureX)
         IN  MoveDrones_FromStart(di + 1, moved[1], moved[2], dep)

\* the movement loop from drone di on; result is <<positions, velocities>>
RECURSIVE MoveDrones(_, _, _, _)
MoveDrones(di, p, v, dep) ==
    IF di > g_numDrones THEN <<p, v>>
    ELSE IF ~dep[di] THEN MoveDrones(di + 1, p, v, dep)
    ELSE LET velx == SteerVelocity(p, di)
             v1 == SetVelocity(v, di, velx)
             futureX == p[di] + (velx * g_balanceInterval) \div 1000
             moved == SetPosition(p, v1, di, futureX)
         IN  MoveDrones(di + 1, moved[1], moved[2], dep)

\* the orders std::sort may leave the drones of set in: ascending x, with
\* drones of equal x in any order
RECURSIVE SortedOrders(_, _)
SortedOrders(p, set) ==
    IF set = {} THEN {<<>>}
    ELSE UNION {{<<m>> \o rest : rest \in SortedOrders(p, set \ {m})} :
                   m \in {i \in set : \A j \in set : p[i] <= p[j]}}

\* mutant of Separate: the two new positions are exchanged
RECURSIVE Separate_Swapped(_, _, _, _, _)
Separate_Swapped(order, first, i, p, v) ==
    IF i + 1 > Len(order) THEN <<p, v>>
    ELSE LET x1 == first[i]
             x2 == first[i + 1]
         IN  IF x2 - x1 < MIN_SEPARATION
             THEN LET midpoint == Half(x1 + x2)
                      newX1 == midpoint + Half(MIN_SEPARATION)
                      newX2 == midpoint - Half(MIN_SEPARATION)
                      s1 == SetPosition(p, v, order[i], newX1)
                      s2 == SetPosition(s1[1], s1[2], order[i + 1], newX2)
                  IN  Separate_Swapped(order, first, i + 1, s2[1], s2[2])
             ELSE Separate_Swapped(order, first, i + 1, p, v)

\* the separation sweep from pair i on; first[k] is the x pair k was sorted by
RECURSIVE Separate(_, _, _, _, _)
Separate(order, first, i, p, v) ==
    IF i + 1 > Len(order) THEN <<p, v>>
    ELSE LET x1 == first[i]
             x2 == first[i + 1]
         IN  IF x2 - x1 < MIN_SEPARATION
             THEN LET midpoint == Half(x1 + x2)
                      newX1 == midpoint - Half(MIN_SEPARATION)
                      newX2 == midpoint + Half(MIN_SEPARATION)
                      s1 == SetPosition(p, v, order[i], newX1)
                      s2 == SetPosition(s1[1], s1[2], order[i + 1], newX2)
                  IN  Separate(order, first, i + 1, s2[1], s2[2])
             ELSE Separate(order, first, i + 1, p, v)

\* collision resolution on positions p with the sort result order
ResolveCollisions(order, p, v) ==
    Separate(order, [k \in 1..Len(order) |-> p[order[k]]], 1, p, v)

AutoBalanceDrones ==
    /\ Due(balanceEv, monitorEv)
    /\ IF g_numDrones = 0
       THEN UNCHANGED nodeVars
       ELSE LET moved == MoveDrones(1, pos, vel, droneDeployed)
            IN  \E order \in SortedOrders(moved[1], {di \in Drones : droneDeployed[di]}) :
                    LET apart == ResolveCollisions(order, moved[1], moved[2])
                    IN  /\ pos' = apart[1]
                        /\ vel' = apart[2]
                        /\ UNCHANGED droneDeployed
    /\ balanceEv' = [ts |-> now + g_balanceInterval, uid |-> nextUid]
    /\ nextUid' = nextUid + 1
    /\ UNCHANGED <<cfgVars, now, totalVars, windowVars, legacyVars, g_sentTimes,
                   monitorEv, minHopRssi, deployLog>>

\* ------------------------------------------------------ Simulator::Run
\* the clock moves on when no event is pending at the current time
Advance ==
    /\ balanceEv.ts > now
    /\ monitorEv.ts > now
    /\ now < Min2(StopTime, MaxTime * 1000)
    /\ now' = now + StepMs
    /\ pos' = [i \in Nodes |-> Drift(pos[i], vel[i], StepMs)]
    /\ UNCHANGED <<cfgVars, vel, droneDeployed, totalVars, windowVars, legacyVars,
                   g_sentTimes, schedVars, minHopRssi, deployLog>>

Next ==
    \/ TxTrace
    \/ RxTrace
    \/ \E uid \in Uids : ClientRxTrace(uid)
    \/ Monitor
    \/ AutoBalanceDrones
    \/ Advance

Spec == Init /\ [][Next]_vars

\* ------------------------------------------- the runs of the README
\* The three documented test runs, and a run without relays, at the default
\* user speed, over the whole 60 s, on a link that records no traffic.
\* Each is <<numDrones, droneInitMode, totalDistance>>.
ReadmeTests ==
    {<<0, "deploy", M(0)>>, <<2, "deploy", M(0)>>, <<3, "deploy", M(0)>>,
     <<3, "even", M(120)>>}

InitReadme ==
    /\ \E t \in ReadmeTests :
           /\ g_numDrones = t[1]
           /\ g_droneInitMode = t[2]
           /\ g_totalDistance = t[3]
    /\ g_userSpeed = USER_DEFAULT_SPEED
    /\ now = 0
    /\ pos = [i \in Nodes |->
                IF i = 0 THEN M(0)
                ELSE IF i = ApIndex THEN base_station_x
                ELSE InitialDroneX(g_droneInitMode, g_numDrones, g_totalDistance, i)]
    /\ vel = [i \in Nodes |-> IF i = 0 THEN g_userSpeed ELSE 0]
    /\ droneDeployed = [i \in Drones |-> g_droneInitMode \in {"even", "cluster"}]
    /\ InitMetrics

\* the clock moves on until the stop time
AdvanceToStop ==
    /\ balanceEv.ts > now
    /\ monitorEv.ts > now
    /\ now < StopTime
    /\ now' = now + StepMs
    /\ pos' = [i \in Nodes |-> Drift(pos[i], vel[i], StepMs)]
    /\ UNCHANGED <<cfgVars, vel, droneDeployed, totalVars, windowVars, legacyVars,
                   g_sentTimes, schedVars, minHopRssi, deployLog>>

NextReadme ==
    \/ Monitor
    \/ AutoBalanceDrones
    \/ AdvanceToStop

SpecReadme == InitReadme /\ [][NextReadme]_vars

\* ------------------------------------------ the two tasks as functions
\* what DeployNextDroneIfNeeded makes of positions p, velocities v and flags
\* dep with the window metrics of the current state, over the noise the
\* generator can return: <<positions, velocities, flags, window reset>>
EvaluationOutcomes(p, v, dep) ==
    {LET chain == ActiveNodes(dep)
         poor == Poor(LossRate(g_txPackets_window, g_rxPackets_window),
                      g_avgRtt_window, weakest, p, chain)
         nextIndex == NextIndex(dep)
     IN  IF ~poor \/ nextIndex = -1
         THEN <<p, v, dep, FALSE>>
         ELSE LET placed == SetPosition(p, v, nextIndex, TargetX(p, dep))
              IN  <<placed[1], SetVelocity(placed[2], nextIndex, 0),
                    MarkDeployed(dep, nextIndex), TRUE>> :
     weakest \in PossibleWeakest(p, ActiveNodes(dep))}

\* what AutoBalanceDrones makes of p, v and dep, over the orders the sort
\* can return: <<positions, velocities>>
BalanceOutcomes(p, v, dep) ==
    IF g_numDrones = 0 THEN {<<p, v>>}
    ELSE LET moved == MoveDrones(1, p, v, dep)
         IN  {ResolveCollisions(order, moved[1], moved[2]) :
                 order \in SortedOrders(moved[1], {di \in Drones : dep[di]})}

\* Monitor, then AutoBalanceDrones
EvaluationThenBalance ==
    UNION {{<<b[1], b[2], e[3], e[4]>> : b \in BalanceOutcomes(e[1], e[2], e[3])} :
              e \in EvaluationOutcomes(pos, vel, droneDeployed)}

\* AutoBalanceDrones, then Monitor
BalanceThenEvaluation ==
    UNION {EvaluationOutcomes(b[1], b[2], droneDeployed) :
              b \in BalanceOutcomes(pos, vel, droneDeployed)}

\* ------------------------------------- collision prevention on its own
\* The sort and the separation sweep of AutoBalanceDrones, applied at the
\* first balance tick to relays that the movement loop left anywhere on a
\* quarter-metre grid of MaxSpread steps.
PackedXs == {base_station_x + j * (Scale \div 4) : j \in 0..MaxSpread}

InitPacked ==
    /\ g_numDrones \in 1..MaxDrones
    /\ g_droneInitMode = "even"
    /\ g_totalDistance = M(0)
    /\ g_userSpeed \in Speeds
    /\ now = g_balanceInterval
    /\ \E xs \in [Drones -> PackedXs] :
           pos = [i \in Nodes |->
                    IF i = 0 THEN Drift(M(0), g_userSpeed, g_balanceInterval)
                    ELSE IF i = ApIndex THEN base_station_x
                    ELSE xs[i]]
    /\ vel = [i \in Nodes |-> IF i = 0 THEN g_userSpeed ELSE 0]
    /\ droneDeployed = [i \in Drones |-> TRUE]
    /\ InitMetrics

CollisionPrevention ==
    /\ Due(balanceEv, monitorEv)
    /\ \E order \in SortedOrders(pos, {di \in Drones : droneDeployed[di]}) :
           LET apart == ResolveCollisions(order, pos, vel)
           IN  /\ pos' = apart[1]
               /\ vel' = apart[2]
               /\ UNCHANGED droneDeployed
    /\ balanceEv' = [ts |-> now + g_balanceInterval, uid |-> nextUid]
    /\ nextUid' = nextUid + 1
    /\ UNCHANGED <<cfgVars, now, totalVars, windowVars, legacyVars, g_sentTimes,
                   monitorEv, minHopRssi, deployLog>>

SpecPacked == InitPacked /\ [][CollisionPrevention]_vars

\* ------------------------------------------- the signal estimate on its own
\* One hop, from the user anywhere up to MaxRange from the access point, and
\* the estimate the hop loop computes for it, with the noise the generator
\* returned.
InitRssi ==
    /\ g_numDrones = 0
    /\ g_droneInitMode = "deploy"
    /\ g_totalDistance = M(0)
    /\ g_userSpeed = USER_DEFAULT_SPEED
    /\ now = 0
    /\ \E x \in 0..MaxRange :
           pos = [i \in Nodes |-> IF i = 0 THEN base_station_x + x ELSE base_station_x]
    /\ vel = [i \in Nodes |-> IF i = 0 THEN g_userSpeed ELSE 0]
    /\ droneDeployed = [i \in Drones |-> FALSE]
    /\ InitMetrics

EstimateHop ==
    /\ minHopRssi = 1000
    /\ \E noise \in Noise :
           minHopRssi' = Min2(minHopRssi,
                              rssiCalcFromDistance(Dist2(pos, 0, ApIndex), noise))
    /\ UNCHANGED <<cfgVars, now, nodeVars, totalVars, windowVars, legacyVars,
                   g_sentTimes, schedVars, deployLog>>

SpecRssi == InitRssi /\ [][EstimateHop]_vars

\* ------------------------------------------------- a user who stands still
\* The runs with --userSpeed=0 over the whole 60 s, on a link that records
\* no traffic.  The simulator runs every pending event up to the stop time.
InitStill ==
    /\ g_numDrones \in 0..MaxDrones
    /\ g_droneInitMode \in Modes
    /\ g_totalDistance \in Distances
    /\ g_droneInitMode # "even" => g_totalDistance = M(0)
    /\ g_userSpeed = 0
    /\ now = 0
    /\ pos = [i \in Nodes |->
                IF i = 0 THEN M(0)
                ELSE IF i = ApIndex THEN base_station_x
                ELSE InitialDroneX(g_droneInitMode, g_numDrones, g_totalDistance, i)]
    /\ vel = [i \in Nodes |-> IF i = 0 THEN g_userSpeed ELSE 0]
    /\ droneDeployed = [i \in Drones |-> g_droneInitMode \in {"even", "cluster"}]
    /\ InitMetrics

SpecStill == InitStill /\ [][NextReadme]_vars /\ WF_vars(NextReadme)

\* ================================================================ claims
MonitorStep == monitorEv' # monitorEv
BalanceStep == balanceEv' # balanceEv
ActiveRelays == {i \in Drones : droneDeployed[i]}
ActiveCount == Cardinality(ActiveRelays)
Deployed == droneDeployed' # droneDeployed
MonitorJustRan == monitorEv.ts = now + g_monitorInterval
BalanceJustRan == balanceEv.ts = now + g_balanceInterval

\* C1: no relay's active flag goes from true to false, so the number of
\* active relays never decreases from one state to the next, and it never
\* exceeds the number of relay slots.
C1_MonotonicDeployment ==
    [][/\ \A i \in Drones : droneDeployed[i] => droneDeployed'[i]
       /\ Cardinality({i \in Drones : droneDeployed'[i]}) >= ActiveCount
       /\ Cardinality({i \in Drones : droneDeployed'[i]}) <= g_numDrones]_vars

\* a second relay has been deployed while the first stayed active
C1_Witness ==
    /\ g_droneInitMode = "deploy"
    /\ g_numDrones = 3
    /\ ActiveCount = 2
    /\ deployLog.node = 2

\* C2: a deployment evaluation activates a relay exactly when a staged relay
\* remains and windowed loss > 20 %, or windowed average RTT > 100 ms, or the
\* weakest hop RSSI < -65 dBm, or some hop is longer than 40 m; a value equal
\* to its threshold does not trigger.
C2_StagedRemains == \E i \in Drones : ~droneDeployed[i]
C2_LossHigh ==
    /\ g_txPackets_window > 0
    /\ 100 * (g_txPackets_window - g_rxPackets_window) > 20 * g_txPackets_window
C2_RttHigh == g_avgRtt_window[1] > 100 * g_avgRtt_window[2]
C2_SignalWeak == minHopRssi' < -65
C2_HopLong ==
    LET chain == ActiveNodes(droneDeployed)
    IN  \E i \in 1..(Len(chain) - 1) : Dist2(pos, chain[i], chain[i + 1]) > M(40) * M(40)
C3_Gap(xs, j) == xs[j + 1] - xs[j]
C3_MidpointOfLargestGap ==
    [][Deployed =>
          LET xs == SortSeq([k \in 1..(ActiveCount + 2) |->
                               pos[ActiveNodes(droneDeployed)[k]]], LAMBDA a, b : a < b)
              new == CHOOSE i \in Drones : droneDeployed'[i] /\ ~droneDeployed[i]
          IN  \E j \in 1..(Len(xs) - 1) :
                  /\ \A k \in 1..(Len(xs) - 1) : C3_Gap(xs, k) <= C3_Gap(xs, j)
                  /\ \A k \in 1..(j - 1) : C3_Gap(xs, k) < C3_Gap(xs, j)
                  /\ pos'[new] = (xs[j] + xs[j + 1]) \div 2]_vars

\* relay 2 has just been deployed with the access point, relay 1 and the user
\* equally spaced: of the two equal gaps it took the first, next to the
\* access point
C3_Witness ==
    /\ MonitorJustRan
    /\ deployLog.at = now
    /\ deployLog.node = 2
    /\ pos[ApIndex] < pos[1]
    /\ pos[1] - pos[ApIndex] = pos[0] - pos[1]
    /\ 2 * pos[2] = pos[ApIndex] + pos[1]

\* C4: the active relays are a prefix of the slots 1..N.
C4_ActivePrefix ==
    \A i \in Drones : droneDeployed[i] => \A j \in 1..(i - 1) : droneDeployed[j]

\* relays 1 and 2 are active and relay 3 is staged
C4_Witness ==
    /\ g_droneInitMode = "deploy"
    /\ g_numDrones = 3
    /\ droneDeployed = <<TRUE, TRUE, FALSE>>

\* C5: a deployment evaluation activates at most one relay, and no other
\* step activates any.
C5_AtMostOnePerEvaluation ==
    [][/\ Cardinality({i \in Drones : droneDeployed'[i]}) <= ActiveCount + 1
       /\ Deployed => MonitorStep]_vars

\* the evaluation at 4 s deployed the first of three staged relays, with the
\* user 80 m out and a packet sent and unanswered: two criteria held and two
\* relays stayed staged
C5_Witness ==
    /\ MonitorJustRan
    /\ now = 4000
    /\ g_numDrones = 3
    /\ droneDeployed = <<TRUE, FALSE, FALSE>>
    /\ deployLog.at = 4000
    /\ deployLog.tx = 1
    /\ deployLog.rx = 0

\* C6: a deployment zeroes the windowed tx count, rx count, average RTT and
\* sample count and leaves the cumulative ones unchanged; no other step
\* resets the windowed series.
C6_WindowDrops ==
    \/ g_txPackets_window' < g_txPackets_window
    \/ g_rxPackets_window' < g_rxPackets_window
    \/ g_rttSamples_window' < g_rttSamples_window
C6_WindowReset ==
    [][/\ Deployed =>
             /\ g_txPackets_window' = 0
             /\ g_rxPackets_window' = 0
             /\ g_avgRtt_window' = <<0, 1>>
             /\ g_rttSamples_window' = 0
             /\ totalVars' = totalVars
       /\ C6_WindowDrops => Deployed]_vars

\* a deployment has cleared a window that held a packet and an RTT sample
C6_Witness ==
    /\ MonitorJustRan
    /\ deployLog.at = now
    /\ g_txPackets_total = 1
    /\ g_rxPackets_total = 1
    /\ g_rttSamples_total = 1
    /\ g_avgRtt_total # <<0, 1>>
    /\ g_txPackets_window = 0
    /\ g_rxPackets_window = 0
    /\ g_rttSamples_window = 0
    /\ g_avgRtt_window = <<0, 1>>

\* C7 as stated: the first evaluation after a deployment reads windowed loss
\* and RTT counters that are exactly zero, and a deployment leaves the
\* cumulative counters as they were.  Traffic recorded between the two
\* evaluations is counted in the window, so this does not hold.
FirstEvaluationAfterDeployment ==
    /\ MonitorStep
    /\ deployLog.node # 0
    /\ deployLog.at = now - g_monitorInterval
C7_FirstEvaluationReadsZero ==
    [][/\ FirstEvaluationAfterDeployment =>
             /\ g_txPackets_window = 0
             /\ g_rxPackets_window = 0
             /\ g_avgRtt_window = <<0, 1>>
             /\ g_rttSamples_window = 0
       /\ Deployed => totalVars' = totalVars]_vars

\* C7: the first evaluation after a deployment reads windowed tx, rx and
\* RTT sample counts equal to what was recorded since that deployment (the
\* cumulative count now minus the cumulative count at the deployment), so
\* zero only if nothing was recorded; a deployment leaves the cumulative
\* counters as they were.
C7_FirstEvaluationReadsSinceDeployment ==
    [][/\ FirstEvaluationAfterDeployment =>
             /\ g_txPackets_window = g_txPackets_total - deployLog.tx
             /\ g_rxPackets_window = g_rxPackets_total - deployLog.rx
             /\ g_rttSamples_window = g_rttSamples_total - deployLog.samples
             /\ (g_rttSamples_window = 0 => g_avgRtt_window = <<0, 1>>)
       /\ Deployed => totalVars' = totalVars]_vars

\* the evaluation at 4 s has run after the only relay was deployed at 2 s and
\* the packet sent before that was received in between
C7_Witness ==
    /\ MonitorJustRan
    /\ now = 4000
    /\ g_numDrones = 1
    /\ deployLog.node = 1
    /\ deployLog.at = 2000
    /\ deployLog.rx = 0
    /\ g_rxPackets_window = 1

\* C8: after the collision resolution of a balance tick every two active
\* relays are at least MIN_SEPARATION apart, however many there are and
\* wherever the movement left them.
C8_MinimumSeparation ==
    [][BalanceStep =>
          \A a, b \in ActiveRelays :
              a # b => Abs(pos'[a] - pos'[b]) >= MIN_SEPARATION]_vars

\* C9: over a whole balance tick no two active relays change sides: a relay
\* left of another before the tick is left of it after the tick.
C9_NoCrossing ==
    [][BalanceStep =>
          \A a, b \in ActiveRelays : pos[a] < pos[b] => pos'[a] < pos'[b]]_vars

\* C10: collision resolution alone never reorders: a relay left of another
\* before the resolution is not right of it after the resolution.  Under
\* SpecPacked a step is one run of the sort and the separation sweep.
C10_ResolutionKeepsOrder ==
    [][BalanceStep =>
          \A a, b \in ActiveRelays : pos[a] < pos[b] => ~(pos'[a] > pos'[b])]_vars

\* two relays that were 0.25 m apart, at 0.25 m and 0.5 m, have been moved
\* to 0.125 m and 0.625 m: the left one is still the left one
C10_Witness ==
    /\ BalanceJustRan
    /\ g_numDrones = 2
    /\ pos[1] = Scale \div 8
    /\ pos[2] = (5 * Scale) \div 8

\* C11 as stated: when a deployment evaluation and a balance tick are due at
\* the same instant, positions, velocities, active flags and the reset of
\* the window metrics come out the same whichever of the two runs first.
\* A deployment changes what the balance tick moves, so this does not hold.
C11_OrderIndependent ==
    (monitorEv.ts = now /\ balanceEv.ts = now) =>
        EvaluationThenBalance = BalanceThenEvaluation

\* C11: when a deployment evaluation and a balance tick are due at the same
\* instant the evaluation runs first: no balance tick runs while an
\* evaluation is still due.
C11_EvaluationRunsFirst == [][BalanceStep => monitorEv.ts > now]_vars

\* the evaluation at 2 s deployed relay 1 and the balance tick of the same
\* instant has already moved it off its deployment target
C11_Witness ==
    /\ MonitorJustRan
    /\ BalanceJustRan
    /\ deployLog.at = now
    /\ deployLog.node = 1
    /\ pos[1] # deployLog.targetX

\* C12 as stated: at every deployment evaluation the chain whose hops are
\* measured is in position order, so that no active node lies strictly
\* between the two ends of a hop.  The chain is built in slot order, so this
\* does not hold.
C12_ActiveSet == {0, ApIndex} \cup ActiveRelays
C12_Chain ==
    [k \in 1..(ActiveCount + 2) |->
        IF k = 1 THEN 0
        ELSE IF k = ActiveCount + 2 THEN ApIndex
        ELSE CHOOSE i \in ActiveRelays : Cardinality({j \in ActiveRelays : j < i}) = k - 2]
C12_Between(n, a, b) ==
    \/ pos[a] < pos[n] /\ pos[n] < pos[b]
    \/ pos[b] < pos[n] /\ pos[n] < pos[a]
C12_HopsAdjacent ==
    \A k \in 1..(ActiveCount + 1) :
        \A n \in C12_ActiveSet : ~C12_Between(n, C12_Chain[k], C12_Chain[k + 1])
C12_HopRssi(k) == rssiCalcFromDistance(Dist2(pos, C12_Chain[k], C12_Chain[k + 1]), 0)
C13_Scenario ==
    /\ g_droneInitMode = "deploy"
    /\ g_numDrones = 2
    /\ g_userSpeed = USER_DEFAULT_SPEED
C14_ZeroSlotsInert ==
    [][(g_numDrones = 0 /\ (MonitorStep \/ BalanceStep)) =>
          /\ ~Deployed
          /\ UNCHANGED <<pos, vel, droneDeployed, windowVars, legacyVars, deployLog>>]_vars

\* without relay slots both tasks have run twice, the last evaluation on a
\* window with a lost packet and a hop of more than 40 m
C14_Witness ==
    /\ g_numDrones = 0
    /\ now = 4000
    /\ MonitorJustRan
    /\ BalanceJustRan
    /\ g_txPackets_window = 1
    /\ g_rxPackets_window = 0
    /\ pos[0] - pos[ApIndex] > M(40)

\* C15: in "even" mode with N relay slots and total distance D, relay i
\* starts at x = i * D / (N + 1) with zero velocity and active; for N = 3
\* and D = 120 m that is 30, 60 and 90 m.
C15_EvenPlacement ==
    /\ (g_droneInitMode = "even" /\ now = 0) =>
          \A i \in Drones :
              /\ (g_numDrones + 1) * pos[i] = i * g_totalDistance
              /\ vel[i] = 0
              /\ droneDeployed[i]
    /\ [i \in 1..3 |-> InitialDroneX("even", 3, M(120), i)] = <<M(30), M(60), M(90)>>

\* three relays spread over a positive distance, before any task has run
C15_Witness ==
    /\ g_droneInitMode = "even"
    /\ g_numDrones = 3
    /\ g_totalDistance > 0
    /\ now = 0
    /\ pos[1] < pos[2]
    /\ pos[2] < pos[3]
    /\ pos[3] < g_totalDistance
    /\ \A i \in Drones : droneDeployed[i]

\* C16: in "even" mode with three relays and a total distance of 120 m,
\* every hop of the initial chain (user, relay 1, relay 2, relay 3, access
\* point) is at most MAX_HOP_DISTANCE long, so the hop-length criterion does
\* not hold at t = 0.
C16_InitialChain == ActiveNodes(droneDeployed)
C16_InitialHopsWithinMax ==
    (/\ g_droneInitMode = "even"
     /\ g_numDrones = 3
     /\ g_totalDistance = M(120)
     /\ now = 0) =>
        /\ C16_InitialChain = <<0, 1, 2, 3, ApIndex>>
        /\ \A k \in 1..(Len(C16_InitialChain) - 1) :
               Dist2(pos, C16_InitialChain[k], C16_InitialChain[k + 1])
                   <= MAX_HOP_DISTANCE * MAX_HOP_DISTANCE
        /\ ~HopTooLong(pos, C16_InitialChain)

\* C17: in "even" mode nothing is ever deployed: every relay is active
\* from the start and stays so, the windowed counters are never reset (they
\* equal the cumulative ones throughout), an evaluation changes no position
\* or velocity, and a relay's velocity changes only in a balance tick, its
\* position only in a balance tick or by flying at that velocity.
C17_EvenNeverDeploys ==
    [][g_droneInitMode = "even" =>
          /\ \A i \in Drones : droneDeployed[i]
          /\ droneDeployed' = droneDeployed
          /\ deployLog' = deployLog
          /\ g_txPackets_window' = g_txPackets_total'
          /\ g_rxPackets_window' = g_rxPackets_total'
          /\ g_rttSamples_window' = g_rttSamples_total'
          /\ g_avgRtt_window' = g_avgRtt_total'
          /\ MonitorStep => UNCHANGED <<pos, vel>>
          /\ (\E i \in Drones : vel'[i] # vel[i]) => BalanceStep
          /\ (\E i \in Drones : pos'[i] # pos[i]) =>
                 \/ BalanceStep
                 \/ /\ now' = now + StepMs
                    /\ \A i \in Drones : pos'[i] = Drift(pos[i], vel[i], StepMs)]_vars

\* three pre-deployed relays, one of them moved by the balance ticks, and
\* an evaluation that has just run on a window with a lost packet
C17_Witness ==
    /\ g_droneInitMode = "even"
    /\ g_numDrones = 3
    /\ g_totalDistance > 0
    /\ now = 4000
    /\ MonitorJustRan
    /\ g_txPackets_window = 1
    /\ g_rxPackets_window = 0
    /\ \E i \in Drones :
           pos[i] # InitialDroneX(g_droneInitMode, g_numDrones, g_totalDistance, i)

\* C18: in "deploy" mode with three staged relays and the user walking at
\* 2.5 m/s, all three relays have been activated when the simulation stops
\* at 60 s.
C18_Scenario ==
    /\ g_droneInitMode = "deploy"
    /\ g_numDrones = 3
    /\ g_userSpeed = USER_DEFAULT_SPEED
C18_AllDeployedBeforeStop ==
    (C18_Scenario /\ now = StopTime) =>
        /\ \A i \in Drones : droneDeployed[i]
        /\ deployLog.node = 3
        /\ deployLog.at < StopTime

\* the run has reached the stop time with the third relay deployed
C18_Witness ==
    /\ C18_Scenario
    /\ now = StopTime
    /\ ActiveCount = 3
    /\ deployLog.node = 3
    /\ pos[0] = M(150)

\* C19: a round-trip completion for a uid that has no stored send time
\* (never sent, or completed before) leaves both sample counts, both
\* averages and the map of send times as they are; so every sent uid is
\* either still pending or counted once, and a sample is only ever added
\* together with the removal of its uid from the map.
C19_Series ==
    [samplesTotal |-> g_rttSamples_total,
     avgTotal |-> g_avgRtt_total,
     samplesWindow |-> g_rttSamples_window,
     avgWindow |-> g_avgRtt_window,
     sentTimes |-> g_sentTimes]
C19_UnknownUidIgnored ==
    /\ [](\A uid \in 1..(MaxPackets + 1) :
             uid \notin DOMAIN g_sentTimes => ClientRxTraceResult(uid) = C19_Series)
    /\ [](/\ g_rttSamples_total + Cardinality(DOMAIN g_sentTimes) = g_txPackets_total
          /\ g_rttSamples_window <= g_rttSamples_total)
    /\ [][(\/ g_rttSamples_total' # g_rttSamples_total
           \/ g_rttSamples_window' > g_rttSamples_window) =>
              \E uid \in DOMAIN g_sentTimes :
                  /\ DOMAIN g_sentTimes' = (DOMAIN g_sentTimes) \ {uid}
                  /\ g_rttSamples_total' = g_rttSamples_total + 1
                  /\ g_rttSamples_window' = g_rttSamples_window + 1]_vars

\* the one packet sent has completed its round trip, so a second completion
\* for its uid finds no send time
C19_Witness ==
    /\ g_txPackets_total = 1
    /\ g_rttSamples_total = 1
    /\ 1 \notin DOMAIN g_sentTimes
    /\ g_avgRtt_total[1] > 0
    /\ g_rxPackets_total = 1

\* C20: the loss rate of either series is 0 whenever the series' tx count
\* is 0, whatever its rx count, and 100 * (1 - rx / tx) otherwise; this
\* holds of the two rates of every state and of the computation on all
\* small counts.
C20_IsLossOf(rate, tx, rx) ==
    /\ rate[2] > 0
    /\ tx = 0 => rate[1] = 0
    /\ tx > 0 => rate[1] * tx = 100 * (tx - rx) * rate[2]
C20_LossRateDefined ==
    /\ C20_IsLossOf(lossTotal, g_txPackets_total, g_rxPackets_total)
    /\ C20_IsLossOf(lossWindow, g_txPackets_window, g_rxPackets_window)
    /\ \A tx \in 0..(MaxPackets + 3) : \A rx \in 0..(MaxPackets + 3) :
           C20_IsLossOf(LossRate(tx, rx), tx, rx)

\* a deployment has emptied the window while a packet was under way, and
\* the packet has arrived since: nothing sent, one received
C20_Witness ==
    /\ g_txPackets_window = 0
    /\ g_rxPackets_window = 1
    /\ g_txPackets_total = 1
    /\ lossWindow = <<0, 1>>
    /\ lossTotal = <<0, 1>>

\* C21: the cumulative tx count, rx count and RTT sample count never
\* decrease from one state to the next, and a deployment leaves them and the
\* cumulative average as they are.
C21_CumulativeNeverReset ==
    [][/\ g_txPackets_total' >= g_txPackets_total
       /\ g_rxPackets_total' >= g_rxPackets_total
       /\ g_rttSamples_total' >= g_rttSamples_total
       /\ Deployed => UNCHANGED totalVars]_vars

\* a deployment has emptied the window of a run that had sent, received
\* and timed a packet before
C21_Witness ==
    /\ deployLog.at = now
    /\ MonitorJustRan
    /\ deployLog.tx = 1
    /\ deployLog.rx = 1
    /\ deployLog.samples = 1
    /\ g_txPackets_total = 1
    /\ g_rxPackets_total = 1
    /\ g_rttSamples_total = 1
    /\ g_txPackets_window = 0
    /\ g_rttSamples_window = 0

\* C22: with the noise at zero the estimate never rises with the distance
\* (the estimate at any shorter distance is at least the estimate at the
\* hop's distance), and every distance below the reference distance d0 gives
\* the estimate of d0 itself; the estimate the hop loop took differs from
\* that value by the noise only.
C22_Estimate(d) == rssiCalcFromDistance(d * d, 0)
C22_HopLength == pos[0] - pos[ApIndex]
C22_EstimateMonotone ==
    /\ \A d1 \in 0..C22_HopLength : C22_Estimate(d1) >= C22_Estimate(C22_HopLength)
    /\ C22_HopLength < M(1) => C22_Estimate(C22_HopLength) = C22_Estimate(M(1))
    /\ minHopRssi # 1000 => minHopRssi - C22_Estimate(C22_HopLength) \in Noise

\* a hop of half the reference distance has been estimated without noise
\* at the value of the reference distance
C22_Witness ==
    /\ 2 * C22_HopLength = M(1)
    /\ minHopRssi = C22_Estimate(M(1))
    /\ C22_Estimate(M(1)) > C22_Estimate(M(2))
    /\ C22_Estimate(M(2)) > C22_Estimate(MaxRange)

\* C23: an evaluation that deploys nothing, for want of a trigger or of a
\* staged relay, leaves every position, velocity and active flag, the
\* cumulative and the windowed series, and the map of send times unchanged.
C23_NoDeploymentNoChange ==
    [][(MonitorStep /\ ~Deployed) =>
          UNCHANGED <<pos, vel, droneDeployed, totalVars, windowVars, legacyVars,
                      g_sentTimes, deployLog>>]_vars

\* the evaluation at 4 s found a hop of more than 40 m and the only relay
\* deployed since 2 s, with a received packet in the window
C23_Witness ==
    /\ g_droneInitMode = "deploy"
    /\ g_numDrones = 1
    /\ now = 4000
    /\ MonitorJustRan
    /\ balanceEv.ts = now
    /\ deployLog.at = 2000
    /\ droneDeployed = <<TRUE>>
    /\ HopTooLong(pos, ActiveNodes(droneDeployed))
    /\ g_rxPackets_window = 1

\* C24: a deployment changes one node only, a relay that was staged: its
\* position becomes the target, its velocity zero and its flag true, while
\* position, velocity and flag of every other node stay as they were.
C24_OnlySelectedRelayChanges ==
    [][Deployed =>
          \E k \in Drones :
              /\ ~droneDeployed[k]
              /\ droneDeployed'[k]
              /\ pos'[k] = TargetX(pos, droneDeployed)
              /\ pos'[k] = deployLog'.targetX
              /\ vel'[k] = 0
              /\ \A i \in Nodes \ {k} : pos'[i] = pos[i] /\ vel'[i] = vel[i]
              /\ \A i \in Drones \ {k} : droneDeployed'[i] = droneDeployed[i]]_vars

\* the second relay has just been deployed away from its staging place,
\* with the first one out in the chain and the user walking on
C24_Witness ==
    /\ MonitorJustRan
    /\ balanceEv.ts = now
    /\ deployLog.at = now
    /\ deployLog.node = 2
    /\ pos[2] = deployLog.targetX
    /\ pos[2] # deployLog.oldX
    /\ vel[2] = 0
    /\ vel[0] = g_userSpeed
    /\ droneDeployed[1]
    /\ pos[1] # InitialDroneX(g_droneInitMode, g_numDrones, g_totalDistance, 1)

\* C25: in a balance tick the left and right neighbours used for an active
\* relay are the members next to it in the active chain (user, active
\* relays, access point); a staged relay is never used as a neighbour.
C25_ChainPlace(chain, di) == CHOOSE k \in 1..Len(chain) : chain[k] = di
C25_NeighborsInActiveChain ==
    [][BalanceStep =>
          \A di \in ActiveRelays :
              LET chain == ActiveNodes(droneDeployed)
                  k == C25_ChainPlace(chain, di)
              IN  /\ leftMob(di) = chain[k - 1]
                  /\ rightMob(di) = chain[k + 1]
                  /\ leftMob(di) \in Drones => droneDeployed[leftMob(di)]
                  /\ rightMob(di) \in Drones => droneDeployed[rightMob(di)]]_vars

\* C26 as stated: the result of a balance tick is that of a simultaneous
\* update, every active relay's move being computed from the positions at
\* the start of the tick, so that the order of processing does not matter.
C26_StepOf(p, di) == (SteerVelocity(p, di) * g_balanceInterval) \div 1000
C26_SimultaneousMove(p, dep) ==
    [i \in Nodes |-> IF i \in Drones /\ dep[i] THEN p[i] + C26_StepOf(p, i) ELSE p[i]]
C26_AfterResolution(p) ==
    {ResolveCollisions(order, p, vel)[1] :
        order \in SortedOrders(p, {di \in Drones : droneDeployed[di]})}
C26_OrderIndependent ==
    [][(BalanceStep /\ g_numDrones > 0) =>
          pos' \in C26_AfterResolution(C26_SimultaneousMove(pos, droneDeployed))]_vars

\* C26: the active relays are processed in ascending slot index, and each
\* relay's move is computed from the positions of that moment: relays of
\* lower index where this tick has already put them, every other node
\* where it was at the start of the tick.
RECURSIVE C26_ProcessedUpTo(_, _, _)
C26_ProcessedUpTo(k, p, dep) ==
    IF k = 0 THEN p
    ELSE LET q == C26_ProcessedUpTo(k - 1, p, dep)
         IN  IF dep[k] THEN [q EXCEPT ![k] = q[k] + C26_StepOf(q, k)] ELSE q
C26_SequentialMove(p, dep) == C26_ProcessedUpTo(g_numDrones, p, dep)
C26_ProcessedInIndexOrder ==
    [][(BalanceStep /\ g_numDrones > 0) =>
          pos' \in C26_AfterResolution(C26_SequentialMove(pos, droneDeployed))]_vars

\* the tick at 2 s has moved relay 1 from 3 m to 6 m and, seeing it there,
\* left relay 2 at -3 m; from the positions at the start of the tick relay 2
\* would have moved to -6 m
C26_Witness ==
    /\ g_droneInitMode = "even"
    /\ g_numDrones = 2
    /\ g_totalDistance = M(0)
    /\ g_userSpeed = M(20)
    /\ now = 2000
    /\ BalanceJustRan
    /\ pos[1] = M(6)
    /\ pos[2] = -M(3)
    /\ C26_StepOf([pos EXCEPT ![1] = M(3)], 2) = -M(3)
    /\ C26_StepOf(pos, 2) = 0

\* C27 as stated, with the distances taken at the moment the relay is
\* processed: after a balance tick each active relay's velocity is
\* +g_moveSpeed, -g_moveSpeed or 0 as the steering rule says.
C27_Seen(di) == C26_ProcessedUpTo(di - 1, pos, droneDeployed)
C27_VelocityAfterTick ==
    [][BalanceStep =>
          \A di \in ActiveRelays : vel'[di] = SteerVelocity(C27_Seen(di), di)]_vars

\* C27: a balance tick shifts each active relay by +g_moveSpeed times the
\* interval if leftDist - rightDist > threshold, by -g_moveSpeed times the
\* interval if leftDist - rightDist < -threshold, and not at all otherwise,
\* a difference of exactly the threshold included; the velocity of every
\* relay is zero after the tick, the position set having cleared it.
C27_DiffIs(l2, r2, thr) ==
    LET x == l2 - r2 - thr * thr
        a == x \div (2 * thr)
    IN  x >= 0 /\ x % (2 * thr) = 0 /\ a <= 40000 /\ a * a = r2
C27_ShiftBySteering ==
    [][BalanceStep =>
          \A di \in ActiveRelays :
              LET seen == C27_Seen(di)
                  shift == C26_ProcessedUpTo(di, pos, droneDeployed)[di] - pos[di]
                  leftDist2 == Dist2(seen, di, di - 1)
                  rightDist2 == Dist2(seen, di, di + 1)
                  thr == g_rssiMoveThresholdDb
                  step == (g_moveSpeed * g_balanceInterval) \div 1000
              IN  /\ vel'[di] = 0
                  /\ shift \in {step, 0, -step}
                  /\ shift = step <=> DiffExceeds(leftDist2, rightDist2, thr)
                  /\ shift = -step <=> DiffExceeds(rightDist2, leftDist2, thr)
                  /\ (C27_DiffIs(leftDist2, rightDist2, thr)
                        \/ C27_DiffIs(rightDist2, leftDist2, thr)) => shift = 0
                  /\ pos' = C26_SequentialMove(pos, droneDeployed) =>
                         pos'[di] = pos[di] + shift]_vars

\* the first tick has moved relay 1 of two stacked relays by 3 m towards
\* the user and left it without velocity
C27_Witness ==
    /\ g_droneInitMode = "even"
    /\ g_numDrones = 2
    /\ g_totalDistance = M(0)
    /\ now = 1000
    /\ BalanceJustRan
    /\ pos[1] = M(3)
    /\ vel[1] = 0
    /\ pos[2] = -M(3)
    /\ vel[2] = 0

\* C28: whenever a balance tick shifts an active relay, the relay moves
\* toward the farther of its two neighbours: with the neighbours held where
\* the relay saw them, the shift makes the larger of the two distances
\* smaller and the smaller one larger.
C28_MovesTowardFarther ==
    [][BalanceStep =>
          \A di \in ActiveRelays :
              LET seen == C27_Seen(di)
                  shift == C26_StepOf(seen, di)
                  after == [seen EXCEPT ![di] = seen[di] + shift]
                  leftBefore == Dist2(seen, di, leftMob(di))
                  rightBefore == Dist2(seen, di, rightMob(di))
                  leftAfter == Dist2(after, di, leftMob(di))
                  rightAfter == Dist2(after, di, rightMob(di))
              IN  shift # 0 =>
                     IF leftBefore > rightBefore
                     THEN leftAfter < leftBefore /\ rightAfter > rightBefore
                     ELSE rightAfter < rightBefore /\ leftAfter > leftBefore]_vars

\* C29: a balance tick moves each active relay by one Euler step, to
\* oldX + velocity * interval, unless the collision resolution moves the
\* relay as one of a pair closer than MIN_SEPARATION; it moves no staged
\* relay; and outside balance ticks and deployments no relay's position
\* changes, so nothing drifts at the velocity a tick chose.
C29_EulerX(di) ==
    pos[di] + (SteerVelocity(C27_Seen(di), di) * g_balanceInterval) \div 1000
C29_InClosePair(di) ==
    \E b \in ActiveRelays \ {di} : Abs(C29_EulerX(di) - C29_EulerX(b)) < MIN_SEPARATION
C29_SingleEulerStep ==
    [][/\ BalanceStep =>
             /\ \A di \in ActiveRelays : pos'[di] # C29_EulerX(di) => C29_InClosePair(di)
             /\ \A i \in Drones \ ActiveRelays : pos'[i] = pos[i]
       /\ (~BalanceStep /\ ~Deployed) => \A i \in Drones : pos'[i] = pos[i]]_vars

\* a second has passed since the first tick moved relay 1 by 3 m, and the
\* relay is still where the tick put it
C29_Witness ==
    /\ g_droneInitMode = "even"
    /\ g_numDrones = 2
    /\ g_totalDistance = M(0)
    /\ now = 2000
    /\ balanceEv.ts = now
    /\ monitorEv.ts = now
    /\ pos[1] = M(3)
    /\ pos[2] = -M(3)
    /\ pos[0] = Drift(M(0), g_userSpeed, 2000)

\* C30: after a balance tick every active relay lies in the closed interval
\* between the user's and the access point's positions.
C30_Between(x) ==
    /\ x >= Min2(pos[0], pos[ApIndex])
    /\ x <= -Min2(-pos[0], -pos[ApIndex])
C31_TickFrame ==
    [][BalanceStep =>
          /\ \A i \in Nodes \ ActiveRelays : pos'[i] = pos[i] /\ vel'[i] = vel[i]
          /\ droneDeployed' = droneDeployed
          /\ UNCHANGED <<totalVars, windowVars, legacyVars, g_sentTimes>>
          /\ ActiveRelays = {} => UNCHANGED nodeVars]_vars

\* a tick has just moved the one active relay away from where it was
\* deployed, with a relay still staged behind the access point
C31_Witness ==
    /\ g_droneInitMode = "deploy"
    /\ g_numDrones = 2
    /\ ActiveCount = 1
    /\ BalanceJustRan
    /\ now > deployLog.at
    /\ pos[1] = deployLog.targetX + (g_moveSpeed * g_balanceInterval) \div 1000
    /\ pos[2] = base_station_x - M(1)
    /\ g_txPackets_window = 0
    /\ g_txPackets_total = 1

\* C32: each of the two periodic tasks reschedules itself exactly once on
\* every execution path, so from its first run (1 s for the balance tick,
\* 2 s for the evaluation) until the stop time the balance tick runs once
\* per balance interval and the evaluation once per monitor interval: every
\* run schedules one event one interval ahead and nothing else schedules or
\* removes one, a pending event is never left behind by the clock, and the
\* number of events ever scheduled is the number of runs the two periods
\* give.
C32_TicksRun == balanceEv.ts \div g_balanceInterval - 1
C32_EvaluationsRun == (monitorEv.ts - 2000) \div g_monitorInterval
C32_Periodic ==
    /\ [](/\ balanceEv.ts % g_balanceInterval = 0
          /\ (monitorEv.ts - 2000) % g_monitorInterval = 0
          /\ now <= balanceEv.ts /\ balanceEv.ts <= now + g_balanceInterval
          /\ now <= monitorEv.ts /\ monitorEv.ts <= now + g_monitorInterval
          /\ balanceEv.uid # monitorEv.uid
          /\ nextUid = 3 + C32_TicksRun + C32_EvaluationsRun)
    /\ [][/\ BalanceStep =>
               /\ balanceEv.ts = now
               /\ balanceEv' = [ts |-> now + g_balanceInterval, uid |-> nextUid]
               /\ monitorEv' = monitorEv
               /\ nextUid' = nextUid + 1
          /\ MonitorStep =>
               /\ monitorEv.ts = now
               /\ monitorEv' = [ts |-> now + g_monitorInterval, uid |-> nextUid]
               /\ balanceEv' = balanceEv
               /\ nextUid' = nextUid + 1
          /\ nextUid' # nextUid => (BalanceStep \/ MonitorStep)
          /\ now' # now =>
               /\ now' = now + StepMs
               /\ balanceEv.ts >= now' /\ monitorEv.ts >= now']_vars

\* README Test 1 at the stop time: both relays are deployed, 59 balance
\* ticks and 29 evaluations have run, and the events of 60 s are pending
C32_Witness ==
    /\ now = StopTime
    /\ g_numDrones = 2
    /\ ActiveCount = 2
    /\ C32_TicksRun = 59
    /\ C32_EvaluationsRun = 29
    /\ balanceEv.ts = StopTime
    /\ monitorEv.ts = StopTime
    /\ nextUid = 91

\* C33: the deployment decision and the placement are a function of the
\* windowed metrics, the hop signals the evaluation computed and the current
\* topology alone: whether an evaluation deploys, which relay, and where, is
\* given by an expression in which no cumulative counter occurs, so two
\* states that differ only in their cumulative counters get the same
\* decision and the same target position.
C33_Decision(txWindow, rxWindow, rttWindow, weakest, p, dep) ==
    /\ NextIndex(dep) # -1
    /\ Poor(LossRate(txWindow, rxWindow), rttWindow, weakest, p, ActiveNodes(dep))
C33_WindowAndTopologyOnly ==
    [][MonitorStep =>
          LET decision == C33_Decision(g_txPackets_window, g_rxPackets_window,
                                       g_avgRtt_window, minHopRssi', pos, droneDeployed)
          IN  /\ Deployed <=> decision
              /\ decision =>
                    /\ droneDeployed' = MarkDeployed(droneDeployed, NextIndex(droneDeployed))
                    /\ pos' = [pos EXCEPT ![NextIndex(droneDeployed)] =
                                                TargetX(pos, droneDeployed)]
              /\ ~decision => pos' = pos]_vars

\* the evaluation at 4 s has deployed nothing: the window opened by the
\* deployment at 2 s is empty, while the cumulative series shows the one
\* packet sent as lost, a loss rate of 100 %
C33_Witness ==
    /\ now = 4000
    /\ MonitorJustRan
    /\ g_numDrones >= 2
    /\ ActiveCount = 1
    /\ deployLog.at = 2000
    /\ g_txPackets_total = 1
    /\ g_rxPackets_total = 0
    /\ g_txPackets_window = 0
    /\ FracExceeds(lossTotal, g_lossDeployThresholdPct)

\* C34: after a deployment the windowed RTT series holds only round trips of
\* packets sent after that deployment: a completion that adds a sample to
\* the window is that of a packet sent no earlier than the latest
\* deployment.
C34_Completed == (DOMAIN g_sentTimes) \ (DOMAIN g_sentTimes')
C34_WindowOfThisDeployment ==
    [][(g_rttSamples_window' > g_rttSamples_window /\ deployLog.node # 0) =>
          \A uid \in C34_Completed : g_sentTimes[uid] >= deployLog.at]_vars

\* C35: in every reachable state each windowed counter is at most its
\* cumulative counterpart: windowed tx <= cumulative tx, windowed rx <=
\* cumulative rx, and windowed RTT samples <= cumulative RTT samples.
C35_WindowWithinTotal ==
    /\ g_txPackets_window <= g_txPackets_total
    /\ g_rxPackets_window <= g_rxPackets_total
    /\ g_rttSamples_window <= g_rttSamples_total

\* after a deployment emptied the window the packet sent before it was
\* received and answered: the window's rx and RTT counts have caught up with
\* the cumulative ones, its tx count is behind
C35_Witness ==
    /\ deployLog.node # 0
    /\ deployLog.tx = 1
    /\ deployLog.rx = 0
    /\ g_txPackets_window = 0
    /\ g_txPackets_total = 1
    /\ g_rxPackets_window = 1
    /\ g_rxPackets_total = 1
    /\ g_rttSamples_window = 1
    /\ g_rttSamples_total = 1

\* C36: every receive event being that of a distinct packet sent earlier,
\* the windowed rx count never exceeds the windowed tx count, so the
\* windowed loss rate the evaluation uses lies between 0 and 100 percent.
C36_WindowLossIsPercentage ==
    /\ g_rxPackets_window <= g_txPackets_window
    /\ lossWindow[1] >= 0
    /\ lossWindow[1] <= 100 * lossWindow[2]

\* C37: a deployment never worsens the chain: the largest hop distance of
\* the active chain, measured as the deployment evaluation measures it,
\* right after a deployment is no greater than right before it.
C37_HopLengths(p, dep) ==
    LET chain == ActiveNodes(dep)
    IN  {Dist2(p, chain[i], chain[i + 1]) : i \in 1..(Len(chain) - 1)}
C37_LargestHop(p, dep) ==
    CHOOSE d \in C37_HopLengths(p, dep) : \A e \in C37_HopLengths(p, dep) : e <= d
C37_DeploymentNeverWorsens ==
    [][Deployed =>
          C37_LargestHop(pos', droneDeployed') <= C37_LargestHop(pos, droneDeployed)]_vars

\* C38: with the user standing still and no further deployment, repeated
\* balance ticks reach a fixpoint: from some point on every active relay is
\* steered with velocity 0 and no two are closer than MIN_SEPARATION, so
\* that a balance tick leaves every position as it is, rather than the
\* relays moving forever.  The run ends at the stop time, so the fixpoint
\* is reached when the relays are at rest by then, and it is one when
\* relays at rest stay at rest.
C38_AtRest ==
    /\ \A di \in ActiveRelays : SteerVelocity(pos, di) = 0
    /\ \A a, b \in ActiveRelays : a # b => Abs(pos[a] - pos[b]) >= MIN_SEPARATION
C38_ReachesFixpoint ==
    /\ [](now = StopTime => C38_AtRest)
    /\ [][(C38_AtRest /\ ~Deployed) => C38_AtRest']_vars
====
